---- MODULE Spec2Model ----
(***************************************************************************)
(* json2splunk-rs.  Six components are modelled, each with its own          *)
(* variables and its own specification; a specification leaves the         *)
(* variables of the other components at their initial values:              *)
(*   Spec        the HTTP Event Collector client (http_event_collector.rs) *)
(*   SpecVrl     compile_vrl_chain called by concurrent contexts (vrl.rs)  *)
(*   SpecVrlSeq  compile_vrl_chain called by one context                   *)
(*   SpecApply   apply_vrl_chain_to_record (vrl.rs)                        *)
(*   SpecReader  LossyUtf8Reader::read (utils.rs)                          *)
(*   SpecUri     HttpEventCollector::server_uri                            *)
(*   SpecTs      extract_timestamp_from_record (utils.rs)                  *)
(*                                                                         *)
(* One HttpEventCollector is modelled: its batch buffer, its byte          *)
(* accumulator, and the calls batch_event and flush_batch.  flush_batch    *)
(* blocks in post_payload; each iteration of the attempt loop of           *)
(* post_payload is one step, the answer of the server being the input of   *)
(* the step.  A serialized record is a string; it is modelled as a         *)
(* sequence of bytes, each byte carrying the number of the record it       *)
(* belongs to, so that the concatenation of strings is the concatenation   *)
(* of sequences and a record can be recognised inside a request body.      *)
(***************************************************************************)
EXTENDS Integers, Sequences, FiniteSets, TLC

\* ---------------------------------------------------------------- bounds
\* Number of batch_event calls explored.
MaxRecords == 3
\* The byte budget (max_byte_length) of the client: the 100_000 of
\* HttpEventCollector::new, scaled down.
MaxBudget == 3

\* Largest serialized record: one byte more than the budget, so that a
\* record that exceeds the budget on its own exists.
MaxLen == MaxBudget + 1
\* Largest "invalid-event-number" a response body carries: a batch of
\* non-empty records within the budget has at most MaxBudget entries, so the
\* indexes 0..MaxBudget are in range for some batch and out of range for
\* another.
MaxIdx == MaxBudget

\* ------------------------------------------------------ program constants
\* let max_attempts = 5;
max_attempts == 5
\* status.as_u16() == 503
STATUS_BUSY == 503
\* if code == 15
INVALID_EVENT_CODE == 15
\* let backoff_ms = 500 * (attempt + 1) as u64;
BACKOFF_STEP_MS == 500

VARIABLES
    batch_events,         \* Vec<String>: the buffered serialized records
    current_byte_length,  \* usize: the byte accumulator
    max_byte_length,      \* usize: the byte budget (a public field)
    pc,                   \* "idle": between calls; "posting": inside
                          \* post_payload, a request is about to be sent;
                          \* "resume": flush_batch has returned to
                          \* batch_event, which has yet to queue its record
    attempt,              \* the loop variable of post_payload
    payload,              \* the request body built by flush_batch
    pending,              \* payload_str of the batch_event call in progress
    \* --- what an observer of the client has seen (history)
    queued,               \* the payload_str of every batch_event call, in order
    flushes,              \* per finished flush: its body and how it ended
    lastCall,             \* the call in progress or last finished, with the
                          \* buffer as it found it
    \* --- what the call in progress (or last finished) has done so far
    requests,             \* bodies of the requests it sent
    statuses,             \* statuses it received
    backoffs,             \* sleeps (ms) it took
    log,                  \* log lines it wrote
    result                \* what post_payload returned to it: "Ok", "Err",
                          \* or "none" when post_payload has not returned

hecVars == <<batch_events, current_byte_length, max_byte_length, pc, attempt,
             payload, pending, queued, flushes, lastCall, requests, statuses,
             backoffs, log, result>>

\* compile_vrl_chain and the process-wide VRL_CACHE
VARIABLES
    files,      \* the file system: what reading and compiling each path gives
    cache,      \* VRL_CACHE: HashMap<PathBuf, Arc<VrlProgram>>
    lock,       \* the Mutex around the map: 0, or the context that holds it
    vpc,        \* per context: where it is in compile_vrl_chain
    vlist,      \* per context: normalize_paths
    vidx,       \* per context: position of the for loop in normalize_paths
    vout,       \* per context: out, the chain built so far (or returned)
    vsource,    \* per context: source, the text read from the file
    vprog,      \* per context: the program just compiled
    \* --- history
    reads,      \* per path: number of read_to_string calls
    compiles,   \* per path: number of compiler::compile calls
    inserts,    \* per path: number of cache.insert calls
    hits,       \* per path: number of lookups that found the path
    vcalls      \* number of compile_vrl_chain calls so far

vrlVars == <<files, cache, lock, vpc, vlist, vidx, vout, vsource, vprog,
             reads, compiles, inserts, hits, vcalls>>

\* apply_vrl_chain_to_record
VARIABLES
    achain,     \* chain: the compiled programs, in order
    aval,       \* val: the record of the call in progress or last finished
    avrl,       \* vrl_val
    actx,       \* the target metadata and the RuntimeState of the latest
                \* program run
    apc,        \* "idle": between calls; "run": inside the for loop
    aidx,       \* position of the for loop in chain
    ares,       \* what the last call returned: None or Some(value)
    \* --- history
    aran,       \* positions of the programs run for the record
    afailed,    \* position of the program that failed for the record, or 0
    aprev,      \* afailed of the call before
    amemo,      \* per record: the results its calls have returned
    acount      \* number of calls so far

applyVars == <<achain, aval, avrl, actx, apc, aidx, ares, aran, afailed,
               aprev, amemo, acount>>

\* LossyUtf8Reader
VARIABLES
    inner,      \* the bytes the underlying source has yet to deliver
    out_buf,    \* Vec<u8>: the decoded bytes of the latest chunk
    out_pos,    \* usize: how many of them have been served
    \* --- history
    delivered,  \* the bytes returned by all read calls so far
    chunks,     \* the chunks the underlying source has delivered
    lastRead    \* the last read call: the size of its buffer, what
                \* inner.read did in it ("none": not called, "data",
                \* "eof", "err"), and the Ok(ret) or Err it returned

readerVars == <<inner, out_buf, out_pos, delivered, chunks, lastRead>>

\* HttpEventCollector::server_uri
VARIABLES
    http_event_server_ssl,  \* bool
    input_type,             \* String: "raw" selects the line endpoint
    sourcetype,             \* Option<String>
    index,                  \* Option<String>
    uri                     \* what the last server_uri call returned, if any

uriVars == <<http_event_server_ssl, input_type, sourcetype, index, uri>>

\* extract_timestamp_from_record
VARIABLES
    event,      \* the record: the value found at each path
    ts_paths,   \* paths
    fmt_opt,    \* Option<&str>: the explicit format
    ts_pc,      \* "input": not called yet; "done": it has returned
    ts          \* what it returned

tsVars == <<event, ts_paths, fmt_opt, ts_pc, ts>>

vars == <<hecVars, vrlVars, applyVars, readerVars, uriVars, tsVars>>

\* ---------------------------------------------------------------- strings
\* The serialized form of record number id, len bytes long.
Entry(id, len) == [i \in 1..len |-> id]

RECURSIVE Join_Reversed(_)
\* Join, were it to concatenate from the last entry to the first.
Join_Reversed(batch) ==
    IF batch = <<>> THEN <<>> ELSE Join_Reversed(Tail(batch)) \o Head(batch)

RECURSIVE Join(_)
\* self.batch_events.join("")
Join(batch) ==
    IF batch = <<>> THEN <<>> ELSE Head(batch) \o Join(Tail(batch))

\* Option<T>: None is the empty set, Some(v) the singleton {v}.
None == {}
Some(v) == {v}

\* -------------------------------------------------------------- responses
\* What send() can come back with: a transport-level failure, or a response
\* with a status and a body.  A body is either not JSON, or a JSON value of
\* which only the members "code" (as_i64) and "invalid-event-number"
\* (as_u64) matter; a member that is missing or of another type is None.
Statuses == {200, 400, STATUS_BUSY}
NoBody == [json |-> FALSE, code |-> None, num |-> None]
Bodies ==
    {NoBody,
     [json |-> TRUE, code |-> None, num |-> None],
     [json |-> TRUE, code |-> Some(6), num |-> Some(0)],
     [json |-> TRUE, code |-> Some(INVALID_EVENT_CODE), num |-> None]}
    \cup {[json |-> TRUE, code |-> Some(INVALID_EVENT_CODE), num |-> Some(i)] :
            i \in 0..MaxIdx}
TransportFailure == [err |-> TRUE, status |-> 0, body |-> NoBody]
Responses ==
    {TransportFailure} \cup [err : {FALSE}, status : Statuses, body : Bodies]

\* status.is_success()
is_success(status) == status >= 200 /\ status < 300

\* ShouldRetry, were the last attempt not excepted.
ShouldRetry_AnyAttempt(status, att) ==
    status = STATUS_BUSY /\ att < max_attempts

\* status.as_u16() == 503 && attempt + 1 < max_attempts
ShouldRetry(status, att) == status = STATUS_BUSY /\ att + 1 < max_attempts

\* backoff_ms, were it computed from the zero-based loop variable.
backoff_ms_FromZero(att) == BACKOFF_STEP_MS * att

\* let backoff_ms = 500 * (attempt + 1) as u64;
backoff_ms(att) == BACKOFF_STEP_MS * (att + 1)

\* The macro each kind of log line is written with: debug! or error!.
Level(kind) ==
    IF kind \in {"busy", "giving_up", "network_error"} THEN "error" ELSE "debug"

\* Diagnose, were the zero-based index used as a one-based one.
Diagnose_OffByOne(body, batch) ==
    IF body.json /\ body.code = Some(INVALID_EVENT_CODE) /\ body.num # None
    THEN LET idx == CHOOSE i \in body.num : TRUE
         IN  IF 0 < idx /\ idx <= Len(batch)
             THEN <<[kind |-> "bad_event", level |-> Level("bad_event"),
                     idx |-> idx, text |-> batch[idx], body |-> NoBody]>>
             ELSE <<[kind |-> "out_of_range", level |-> Level("out_of_range"),
                     idx |-> idx, text |-> <<>>, body |-> NoBody]>>
    ELSE <<>>

\* The bad-record diagnosis of post_payload: the log lines it writes for a
\* terminal non-success response with this body, given the buffer.  idx is
\* zero-based, sequences are one-based.  (When the bad event parses as JSON
\* it is logged a second time, pretty-printed; that line repeats the first
\* and is left out.)
Diagnose(body, batch) ==
    IF body.json /\ body.code = Some(INVALID_EVENT_CODE) /\ body.num # None
    THEN LET idx == CHOOSE i \in body.num : TRUE
         IN  IF idx < Len(batch)
             THEN <<[kind |-> "bad_event", level |-> Level("bad_event"),
                     idx |-> idx, text |-> batch[idx + 1], body |-> NoBody]>>
             ELSE <<[kind |-> "out_of_range", level |-> Level("out_of_range"),
                     idx |-> idx, text |-> <<>>, body |-> NoBody]>>
    ELSE <<>>

\* A log line.  Of the lines that quote a response body only the one that
\* gives up on the batch keeps it; the other fields are those of the
\* diagnosis.
LogLine(kind) ==
    [kind |-> kind, level |-> Level(kind), idx |-> 0, text |-> <<>>,
     body |-> NoBody]
\* error!("HEC error status={} body={}; giving up on this batch", ...)
GivingUp(body) ==
    [kind |-> "giving_up", level |-> Level("giving_up"), idx |-> 0,
     text |-> <<>>, body |-> body]

\* ------------------------------------------------- components at rest
\* The ingestion contexts that call compile_vrl_chain.
Contexts == {1, 2}
\* The script references given in normalize_paths.
Names == {"a.vrl", "b.vrl"}
\* The script base directory of the process.
VrlDir == Some("rules")
\* base.join(p) with a base directory, PathBuf::from(p) without
Resolve(dir, p) == IF dir = None THEN <<p>> ELSE <<CHOOSE d \in dir : TRUE, p>>
\* The resolved paths of the scripts.
Paths == {Resolve(VrlDir, n) : n \in Names}
\* No program: a path the map has no entry for, a context that has compiled
\* nothing.
NoProgram == [path |-> <<>>, build |-> 0]

\* No compile_vrl_chain call yet: VRL_CACHE is empty.
VrlIdle ==
    /\ files = [p \in Paths |-> "ok"]
    /\ cache = [p \in Paths |-> NoProgram]
    /\ lock = 0
    /\ vpc = [c \in Contexts |-> "idle"]
    /\ vlist = [c \in Contexts |-> <<>>]
    /\ vidx = [c \in Contexts |-> 1]
    /\ vout = [c \in Contexts |-> <<>>]
    /\ vsource = [c \in Contexts |-> <<>>]
    /\ vprog = [c \in Contexts |-> NoProgram]
    /\ reads = [p \in Paths |-> 0]
    /\ compiles = [p \in Paths |-> 0]
    /\ inserts = [p \in Paths |-> 0]
    /\ hits = [p \in Paths |-> 0]
    /\ vcalls = 0

\* No apply_vrl_chain_to_record call yet.
ApplyIdle ==
    /\ achain = <<>>
    /\ aval = [n |-> 0, tag |-> FALSE]
    /\ avrl = [kind |-> "object", fields |-> [n |-> 0, tag |-> FALSE]]
    /\ actx = [meta |-> FALSE, state |-> FALSE]
    /\ apc = "idle"
    /\ aidx = 1
    /\ ares = None
    /\ aran = <<>>
    /\ afailed = 0
    /\ aprev = 0
    /\ amemo = <<>>
    /\ acount = 0

\* The endpoint settings HttpEventCollector::new leaves, no server_uri call
\* yet.
UriIdle ==
    /\ http_event_server_ssl = TRUE
    /\ input_type = "json"
    /\ sourcetype = None
    /\ index = None
    /\ uri = None

\* No extract_timestamp_from_record call yet.
TsIdle ==
    /\ event = <<>>
    /\ ts_paths = <<>>
    /\ fmt_opt = None
    /\ ts_pc = "input"
    /\ ts = None

\* LossyUtf8Reader::new over a source with nothing to deliver.
ReaderIdle ==
    /\ inner = <<>>
    /\ out_buf = <<>>
    /\ out_pos = 0
    /\ delivered = <<>>
    /\ chunks = <<>>
    /\ lastRead = [out |-> 0, inner |-> "none", ok |-> TRUE, ret |-> 0]

\* ------------------------------------------------------------------- Init
\* HttpEventCollector::new.
HecNew ==
    /\ batch_events = <<>>
    /\ current_byte_length = 0
    /\ max_byte_length = MaxBudget
    /\ pc = "idle"
    /\ attempt = 0
    /\ payload = <<>>
    /\ pending = <<>>
    /\ queued = <<>>
    /\ flushes = <<>>
    /\ lastCall = [op |-> "none", entry |-> <<>>, batch |-> <<>>, bytes |-> 0, nflushes |-> 0]
    /\ requests = <<>>
    /\ statuses = <<>>
    /\ backoffs = <<>>
    /\ log = <<>>
    /\ result = "none"

\* A client just constructed.
Init == HecNew /\ VrlIdle /\ ApplyIdle /\ ReaderIdle /\ UriIdle /\ TsIdle

\* ---------------------------------------------------------------- actions
\* The client touches nothing of the other components.
HecFrame == UNCHANGED <<vrlVars, applyVars, readerVars, uriVars, tsVars>>

\* self.current_byte_length += len; self.batch_events.push(payload_str);
Push(payload_str) ==
    /\ current_byte_length' = current_byte_length + Len(payload_str)
    /\ batch_events' = Append(batch_events, payload_str)

\* NeedsFlush, were the comparison >= instead of >.
NeedsFlush_AtBudget(len) == current_byte_length + len >= max_byte_length

\* NeedsFlush, were a record larger than the budget queued without a flush.
NeedsFlush_SkipOversize(len) ==
    current_byte_length + len > max_byte_length /\ len <= max_byte_length

\* NeedsFlush, were the new record left out of the comparison.
NeedsFlush_BeforeAdding(len) == current_byte_length > max_byte_length

\* NeedsFlush, were the buffer flushed only once it is full, whatever the
\* length of the new record.
NeedsFlush_IgnoreNew(len) == current_byte_length >= max_byte_length

\* if self.current_byte_length + len > self.max_byte_length
NeedsFlush(len) == current_byte_length + len > max_byte_length

\* A call that sends nothing and logs nothing.
Quiet ==
    /\ requests' = <<>>
    /\ statuses' = <<>>
    /\ backoffs' = <<>>
    /\ log' = <<>>
    /\ result' = "none"

\* flush_batch past its early return: build the payload and enter
\* post_payload.  resumeWith is the record batch_event still has to queue
\* (<<>> when flush_batch was called directly).
StartFlush(resumeWith) ==
    /\ payload' = Join(batch_events)
    /\ attempt' = 0
    /\ pending' = resumeWith
    /\ pc' = "posting"
    /\ requests' = <<>>
    /\ statuses' = <<>>
    /\ backoffs' = <<>>
    /\ log' = <<LogLine("flushing")>>
    /\ result' = "none"
    /\ UNCHANGED <<batch_events, current_byte_length>>

\* batch_event(payload): payload_str is the serialized payload, len bytes
\* long (at least one byte: a JSON text, or a line with its newline).
BatchEvent(len) ==
    LET payload_str == Entry(Len(queued) + 1, len) IN
    /\ pc = "idle"
    /\ Len(queued) < MaxRecords
    /\ queued' = Append(queued, payload_str)
    /\ lastCall' = [op |-> "batch_event", entry |-> payload_str,
                    batch |-> batch_events, bytes |-> current_byte_length,
                    nflushes |-> Len(flushes)]
    /\ IF NeedsFlush(len) /\ batch_events # <<>>
       THEN /\ StartFlush(payload_str)
            /\ UNCHANGED <<flushes>>
       ELSE \* no flush, or flush_batch returned at once on an empty buffer
            /\ Push(payload_str)
            /\ Quiet
            /\ UNCHANGED <<pc, attempt, payload, pending, flushes>>
    /\ UNCHANGED max_byte_length
    /\ HecFrame

\* flush_batch() called by the owner of the client.
FlushBatch ==
    /\ pc = "idle"
    /\ lastCall' = [op |-> "flush_batch", entry |-> <<>>,
                    batch |-> batch_events, bytes |-> current_byte_length,
                    nflushes |-> Len(flushes)]
    /\ IF batch_events = <<>>
       THEN /\ Quiet
            /\ UNCHANGED <<batch_events, current_byte_length, pc, attempt,
                           payload, pending>>
       ELSE StartFlush(<<>>)
    /\ UNCHANGED <<max_byte_length, queued, flushes>>
    /\ HecFrame

\* FinishFlush, were the byte counter not reset.
FinishFlush_KeepLength(ret, lines) ==
    /\ log' = log \o lines
               \o (IF ret = "Err" THEN <<LogLine("network_error")>> ELSE <<>>)
    /\ result' = ret
    /\ batch_events' = <<>>
    /\ current_byte_length' = current_byte_length
    /\ flushes' = Append(flushes, payload)
    /\ pc' = IF pending = <<>> THEN "idle" ELSE "resume"
    /\ attempt' = 0
    /\ payload' = <<>>

\* FinishFlush, were flush_batch to return on a transport error before it
\* clears the buffer.
FinishFlush_ReturnOnErr(ret, lines) ==
    /\ log' = log \o lines
               \o (IF ret = "Err" THEN <<LogLine("network_error")>> ELSE <<>>)
    /\ result' = ret
    /\ batch_events' = IF ret = "Err" THEN batch_events ELSE <<>>
    /\ current_byte_length' = IF ret = "Err" THEN current_byte_length ELSE 0
    /\ flushes' = Append(flushes, payload)
    /\ pc' = IF pending = <<>> THEN "idle" ELSE "resume"
    /\ attempt' = 0
    /\ payload' = <<>>

\* FinishFlush, were a batch that post_payload gave up on kept in the
\* buffer for the next flush.
FinishFlush_RequeueRejected(ret, lines) ==
    LET rejected == lines # <<>> /\ lines[1].kind = "giving_up" IN
    /\ log' = log \o lines
               \o (IF ret = "Err" THEN <<LogLine("network_error")>> ELSE <<>>)
    /\ result' = ret
    /\ batch_events' = IF rejected THEN batch_events ELSE <<>>
    /\ current_byte_length' = IF rejected THEN current_byte_length ELSE 0
    /\ flushes' = Append(flushes, payload)
    /\ pc' = IF pending = <<>> THEN "idle" ELSE "resume"
    /\ attempt' = 0
    /\ payload' = <<>>

\* FinishFlush, were a transport error diagnosed like a rejection instead
\* of only logged.
FinishFlush_DiagnoseErr(ret, lines) ==
    /\ log' = log \o lines
               \o (IF ret = "Err"
                   THEN <<LogLine("network_error"), GivingUp(NoBody)>>
                   ELSE <<>>)
    /\ result' = ret
    /\ batch_events' = <<>>
    /\ current_byte_length' = 0
    /\ flushes' = Append(flushes, payload)
    /\ pc' = IF pending = <<>> THEN "idle" ELSE "resume"
    /\ attempt' = 0
    /\ payload' = <<>>

\* The rest of flush_batch once post_payload has returned ret ("Ok" or
\* "Err"), having logged lines: log the error if there is one, then
\* self.batch_events.clear(); self.current_byte_length = 0;
\* and return to the caller.
FinishFlush(ret, lines) ==
    /\ log' = log \o lines
               \o (IF ret = "Err" THEN <<LogLine("network_error")>> ELSE <<>>)
    /\ result' = ret
    /\ batch_events' = <<>>
    /\ current_byte_length' = 0
    /\ flushes' = Append(flushes, payload)
    /\ pc' = IF pending = <<>> THEN "idle" ELSE "resume"
    /\ attempt' = 0
    /\ payload' = <<>>

\* One iteration of the attempt loop of post_payload: send the request and
\* act on what comes back.  (The Ok(()) after the loop is never reached: the
\* last iteration does not take the retry branch.)
PostAttempt(resp) ==
    /\ pc = "posting"
    /\ requests' = Append(requests, payload)
    /\ IF resp.err
       THEN \* .send()? returns the error to flush_batch
            /\ FinishFlush("Err", <<>>)
            /\ UNCHANGED <<statuses, backoffs>>
       ELSE /\ statuses' = Append(statuses, resp.status)
            /\ IF is_success(resp.status)
               THEN /\ FinishFlush("Ok", <<LogLine("status_ok")>>)
                    /\ UNCHANGED backoffs
               ELSE IF ShouldRetry(resp.status, attempt)
               THEN /\ log' = Append(log, LogLine("busy"))
                    /\ backoffs' = Append(backoffs, backoff_ms(attempt))
                    /\ attempt' = attempt + 1
                    /\ UNCHANGED <<batch_events, current_byte_length, pc,
                                   flushes, payload, result>>
               ELSE /\ FinishFlush("Ok", <<GivingUp(resp.body)>>
                                         \o Diagnose(resp.body, batch_events))
                    /\ UNCHANGED backoffs
    /\ UNCHANGED <<max_byte_length, pending, queued, lastCall>>
    /\ HecFrame

\* batch_event after its call of flush_batch has returned.
Resume ==
    /\ pc = "resume"
    /\ Push(pending)
    /\ pending' = <<>>
    /\ pc' = "idle"
    /\ UNCHANGED <<max_byte_length, attempt, payload, queued, flushes,
                   lastCall, requests, statuses, backoffs, log, result>>
    /\ HecFrame

Next ==
    \/ \E len \in 1..MaxLen : BatchEvent(len)
    \/ FlushBatch
    \/ \E resp \in Responses : PostAttempt(resp)
    \/ Resume

Spec == Init /\ [][Next]_vars

\* ====================================================================
\* Properties of the delivery client
\* ====================================================================
\* The record numbers of the bytes of a string.
Ids(str) == {str[i] : i \in 1..Len(str)}

RECURSIVE TotalLen(_)
\* The sum of the byte lengths of the strings of a sequence.
TotalLen(strs) ==
    IF strs = <<>> THEN 0 ELSE Len(Head(strs)) + TotalLen(Tail(strs))

RECURSIVE Concat(_)
\* The strings of a sequence, one after the other, first to last.
Concat(strs) ==
    IF strs = <<>> THEN <<>> ELSE Head(strs) \o Concat(Tail(strs))

\* flush_batch has returned, to its caller or to batch_event, from a flush
\* of a non-empty buffer, and nothing has run since.
FlushReturned ==
    \/ pc = "resume"
    \/ pc = "idle" /\ lastCall.op = "flush_batch" /\ lastCall.batch # <<>>

\* A record that exceeds the byte budget on its own.
Oversize(str) == Len(str) > max_byte_length

\* C1: in every state, also while a flush is in progress and after flushes
\* that failed, current_byte_length is the sum of the byte lengths of the
\* entries of batch_events.
C1_AccumulatorIsSum == current_byte_length = TotalLen(batch_events)

\* Two records, of three bytes together, queued with no flush in between,
\* after an earlier flush.
C1_Witness ==
    /\ pc = "idle"
    /\ lastCall.op = "batch_event"
    /\ Len(batch_events) = 2
    /\ Len(flushes) = 1
    /\ current_byte_length = 3

\* C2: when flush_batch returns from a flush of a non-empty buffer, the
\* buffer is empty and the byte counter is 0, whether post_payload returned
\* Ok (success, or a rejection it gave up on, a fifth 503 included) or Err.
C2_FlushClears ==
    FlushReturned => batch_events = <<>> /\ current_byte_length = 0

\* A flush has returned after 503 on all five attempts.
C2_Witness ==
    /\ FlushReturned
    /\ Len(statuses) = 5
    /\ statuses[5] = 503

\* C3: batch_event with a record of L bytes.  If current_byte_length + L
\* exceeded max_byte_length when it was called, the buffer it found is what
\* is sent (without the new record), and once it has returned the buffer
\* holds the new record alone and the accumulator is L.  Otherwise nothing
\* is sent and the record is appended to the buffer it found.
C3_FlushBeforeOverflow ==
    lastCall.op = "batch_event" =>
        LET L == Len(lastCall.entry) IN
        IF lastCall.bytes + L > max_byte_length
        THEN /\ pc = "posting" =>
                    /\ lastCall.batch # <<>>
                    /\ payload = Concat(lastCall.batch)
                    /\ batch_events = lastCall.batch
             /\ pc = "idle" =>
                    /\ batch_events = <<lastCall.entry>>
                    /\ current_byte_length = L
                    /\ lastCall.batch # <<>> =>
                           /\ Len(flushes) = lastCall.nflushes + 1
                           /\ flushes[Len(flushes)] = Concat(lastCall.batch)
                           /\ \A n \in 1..Len(requests) :
                                  requests[n] = Concat(lastCall.batch)
                    /\ lastCall.batch = <<>> =>
                           requests = <<>> /\ Len(flushes) = lastCall.nflushes
        ELSE /\ pc = "idle"
             /\ batch_events = Append(lastCall.batch, lastCall.entry)
             /\ current_byte_length = lastCall.bytes + L
             /\ requests = <<>>
             /\ Len(flushes) = lastCall.nflushes

\* batch_event has returned after it flushed a buffer of two records that
\* the new record did not fit in.
C3_Witness ==
    /\ pc = "idle"
    /\ lastCall.op = "batch_event"
    /\ Len(lastCall.batch) = 2
    /\ lastCall.bytes + Len(lastCall.entry) > max_byte_length
    /\ batch_events = <<lastCall.entry>>

\* C4: a record larger than max_byte_length is queued like any other (once
\* batch_event has returned it is in the buffer) and shares neither the
\* buffer nor a request body with another record.
C4_OversizeAlone ==
    /\ (pc = "idle" /\ lastCall.op = "batch_event") =>
          /\ batch_events # <<>>
          /\ batch_events[Len(batch_events)] = lastCall.entry
    /\ \A i \in 1..Len(batch_events) :
          Oversize(batch_events[i]) => Len(batch_events) = 1
    /\ \A r \in 1..Len(queued) :
          Oversize(queued[r]) =>
              /\ \A k \in 1..Len(flushes) :
                    r \in Ids(flushes[k]) => flushes[k] = queued[r]
              /\ \A n \in 1..Len(requests) :
                    r \in Ids(requests[n]) => requests[n] = queued[r]

\* A record larger than the budget, queued between two others, has been
\* sent.
C4_Witness ==
    \E r \in 2..(Len(queued) - 1) :
        /\ Oversize(queued[r])
        /\ \E k \in 1..Len(flushes) : flushes[k] = queued[r]

\* C5: every body sent is the concatenation of a run of consecutive queued
\* records, whole and in the order queued; the bodies of the flushes so
\* far, followed by the buffer and the record being queued, list the queued
\* records in input order, each once.
C5_BodiesInOrder ==
    /\ \A k \in 1..Len(flushes) :
          \E a \in 1..Len(queued) : \E b \in a..Len(queued) :
              flushes[k] = Concat(SubSeq(queued, a, b))
    /\ \A n \in 1..Len(requests) : requests[n] = Concat(lastCall.batch)
    /\ pc = "posting" => payload = Concat(batch_events)
    /\ Concat(flushes) \o Concat(batch_events) \o pending = Concat(queued)

\* Two flushes have been sent, one of them with two records in its body.
C5_Witness ==
    /\ Len(flushes) = 2
    /\ \E k \in 1..2 : Cardinality(Ids(flushes[k])) = 2


\* The kinds of the log lines of the call.
LogKinds == {log[i].kind : i \in 1..Len(log)}
\* The lines of the bad-record diagnosis.
DiagnosisLines == {i \in 1..Len(log) : log[i].kind \in {"bad_event", "out_of_range"}}
\* The flush of the call has ended: post_payload has returned.
FlushEnded == result # "none"

\* C6: a flush sends at most 5 requests, all with the same body, and sleeps
\* at most 4 times.  The n-th sleep is n x 500 ms and follows a 503 on
\* attempt n; every 503 on an attempt before the fifth is followed by that
\* sleep and then by one more request (still to be sent while the flush is
\* in progress, sent once it has ended); a 503 on the fifth attempt ends the
\* flush as an error the client gives up on.
C6_BoundedRetry ==
    /\ Len(requests) <= 5
    /\ Len(backoffs) <= 4
    /\ \A n \in 1..Len(requests) : requests[n] = requests[1]
    /\ \A n \in 1..Len(backoffs) : backoffs[n] = n * 500 /\ statuses[n] = 503
    /\ \A n \in 1..Len(statuses) :
          (statuses[n] = 503 /\ n <= 4) => Len(backoffs) >= n
    /\ pc = "posting" =>
          /\ Len(requests) < 5
          /\ Len(backoffs) = Len(requests)
          /\ attempt = Len(requests)
    /\ FlushEnded => Len(requests) = Len(backoffs) + 1
    /\ (Len(statuses) = 5 /\ statuses[5] = 503) =>
          /\ FlushEnded
          /\ Len(requests) = 5
          /\ Len(backoffs) = 4
          /\ "giving_up" \in LogKinds

\* A flush has ended on its fifth 503.
C6_Witness ==
    /\ FlushEnded
    /\ statuses = <<503, 503, 503, 503, 503>>
    /\ backoffs = <<500, 1000, 1500, 2000>>

\* C7: when a flush gets a 2xx after k 503s, k is at most 4, k + 1 requests
\* were sent, the sleeps were 500, 1000, ..., k x 500 ms, there is no
\* bad-record diagnosis, and the flush reports success: post_payload
\* returns Ok and logs the status, and no error is logged for the batch.
C7_RetryThenSuccess ==
    (statuses # <<>> /\ statuses[Len(statuses)] \in 200..299) =>
        LET k == Len(statuses) - 1 IN
        /\ k \in 0..4
        /\ \A n \in 1..k : statuses[n] = 503
        /\ Len(requests) = k + 1
        /\ backoffs = [n \in 1..k |-> n * 500]
        /\ DiagnosisLines = {}
        /\ FlushEnded
        /\ result = "Ok"
        /\ log[Len(log)].kind = "status_ok"
        /\ LogKinds \cap {"giving_up", "network_error"} = {}

\* The responses were 503, 503, 200: three requests, sleeps of 500 and
\* 1000 ms.
C7_Witness ==
    /\ statuses = <<503, 503, 200>>
    /\ Len(requests) = 3
    /\ backoffs = <<500, 1000>>

\* C8: a status that is neither 2xx nor 503, on any attempt, ends the
\* flush: it is the answer to the last request sent, no sleep follows it,
\* and the records of the batch are neither in the buffer nor in the record
\* being queued.  The records of a finished flush (of any, hence of an
\* abandoned one) are in the body of no later flush.
C8_RejectionAbandons ==
    /\ (statuses # <<>>
          /\ statuses[Len(statuses)] \notin 200..299
          /\ statuses[Len(statuses)] # 503) =>
            /\ FlushEnded
            /\ pc # "posting"
            /\ Len(requests) = Len(statuses)
            /\ Len(backoffs) = Len(statuses) - 1
            /\ "giving_up" \in LogKinds
            /\ Ids(flushes[Len(flushes)]) = Ids(Concat(lastCall.batch))
    /\ \A i \in 1..Len(flushes) :
          /\ \A j \in (i + 1)..Len(flushes) :
                Ids(flushes[i]) \cap Ids(flushes[j]) = {}
          /\ Ids(flushes[i]) \cap Ids(Concat(batch_events) \o pending) = {}
          /\ \A n \in 1..Len(requests) :
                pc = "posting" => Ids(flushes[i]) \cap Ids(requests[n]) = {}

\* The second flush of the client was rejected with 400 after two 503s, and
\* the call that flushed has returned.
C8_Witness ==
    /\ statuses = <<503, 503, 400>>
    /\ Len(flushes) = 2
    /\ pc = "idle"

\* C9: a transport-level failure ends the flush at once: the failed request
\* is the last one sent, only the 503s before it were followed by a sleep,
\* no diagnosis is made, the failure is logged and nothing else is logged
\* about the outcome, and the buffer is empty when flush_batch returns.
C9_TransportFailure ==
    result = "Err" =>
        /\ pc # "posting"
        /\ Len(requests) = Len(statuses) + 1
        /\ Len(backoffs) = Len(statuses)
        /\ \A n \in 1..Len(statuses) : statuses[n] = 503
        /\ DiagnosisLines = {}
        /\ log[Len(log)].kind = "network_error"
        /\ LogKinds \subseteq {"flushing", "busy", "network_error"}
        /\ FlushReturned => batch_events = <<>> /\ current_byte_length = 0
        /\ ~FlushReturned =>
              batch_events = <<lastCall.entry>> /\ lastCall.op = "batch_event"

\* The third request of a flush failed at the transport level, after two
\* 503s.
C9_Witness ==
    /\ result = "Err"
    /\ statuses = <<503, 503>>
    /\ Len(requests) = 3
    /\ FlushReturned

\* C10: when post_payload gives up on a response whose body is JSON with
\* code 15 and invalid-event-number i, i less than the number of records of
\* the batch submitted, the diagnosis logs exactly one line, and it quotes
\* the i-th (zero-based) entry of that batch; the buffer is empty when
\* flush_batch returns.
C10_BadEventLogged ==
    \A l \in 1..Len(log) :
        (/\ log[l].kind = "giving_up"
         /\ log[l].body.json
         /\ log[l].body.code = {15}
         /\ \E i \in 0..(Len(lastCall.batch) - 1) : log[l].body.num = {i}) =>
            LET i == CHOOSE i \in log[l].body.num : TRUE IN
            /\ DiagnosisLines = {l + 1}
            /\ log[l + 1].kind = "bad_event"
            /\ log[l + 1].idx = i
            /\ log[l + 1].text = lastCall.batch[i + 1]
            /\ FlushReturned => batch_events = <<>> /\ current_byte_length = 0

\* A batch of three records was answered 400 with code 15 and
\* invalid-event-number 1, and flush_batch has returned.
C10_Witness ==
    /\ FlushReturned
    /\ Len(lastCall.batch) = 3
    /\ statuses = <<400>>
    /\ \E l \in 1..Len(log) :
          /\ log[l].kind = "giving_up"
          /\ log[l].body = [json |-> TRUE, code |-> {15}, num |-> {1}]
    /\ \E l \in 1..Len(log) :
          log[l].kind = "bad_event" /\ log[l].text = queued[2]

\* The response the call gave up on reported code 15 with an
\* invalid-event-number that is no index of the batch submitted.
OutOfRangeReported ==
    \E l \in 1..Len(log) :
        /\ log[l].kind = "giving_up"
        /\ log[l].body.json
        /\ log[l].body.code = {15}
        /\ \E i \in log[l].body.num : i >= Len(lastCall.batch)

\* C11: when the response given up on reports code 15 with an
\* invalid-event-number out of range for the batch submitted, the index is
\* logged as a warning, no buffered record is quoted, the flush returns
\* normally (post_payload returns Ok) and the buffer is cleared.
C11_OutOfRangeWarned ==
    OutOfRangeReported =>
        /\ DiagnosisLines # {}
        /\ \A l \in DiagnosisLines :
              /\ log[l].kind = "out_of_range"
              /\ log[l].level = "warn"
              /\ log[l].idx \in log[l - 1].body.num
        /\ \A l \in 1..Len(log) : log[l].text = <<>>
        /\ result = "Ok"
        /\ FlushReturned => batch_events = <<>> /\ current_byte_length = 0

\* C11, but for the level of the line: the index is logged (with debug!),
\* no buffered record is quoted, post_payload returns Ok and the buffer is
\* cleared.
C11_OutOfRangeNotFatal ==
    OutOfRangeReported =>
        /\ DiagnosisLines # {}
        /\ \A l \in DiagnosisLines :
              /\ log[l].kind = "out_of_range"
              /\ log[l].level = "debug"
              /\ log[l].idx \in log[l - 1].body.num
        /\ \A l \in 1..Len(log) : log[l].text = <<>>
        /\ result = "Ok"
        /\ FlushReturned => batch_events = <<>> /\ current_byte_length = 0

\* C12: whenever no flush is in progress and the buffer is non-empty,
\* current_byte_length is at most max_byte_length.
C12_BufferingUnderBudget ==
    (pc = "idle" /\ batch_events # <<>>) =>
        current_byte_length <= max_byte_length

\* C12 as amended: whenever no flush is in progress and the buffer is
\* non-empty, current_byte_length is at most max_byte_length, or the buffer
\* holds a single record that exceeds max_byte_length on its own.
C12_BufferingUnderBudgetOrAlone ==
    (pc = "idle" /\ batch_events # <<>>) =>
        \/ current_byte_length <= max_byte_length
        \/ Len(batch_events) = 1 /\ Len(batch_events[1]) > max_byte_length

\* Between calls, after a flush, the buffer holds a single record that
\* exceeds the budget.
C12_Witness ==
    /\ pc = "idle"
    /\ Len(flushes) = 1
    /\ Len(batch_events) = 1
    /\ current_byte_length > max_byte_length

\* ====================================================================
\* compile_vrl_chain (src/utils/vrl.rs)
\*
\* Each context runs compile_vrl_chain over its own list; the map and its
\* Mutex are shared.  Taking the Mutex, what is done under it, reading the
\* file and compiling it are steps of their own, so that contexts
\* interleave where threads do.
\* ====================================================================
\* Number of compile_vrl_chain calls explored, over all contexts: each
\* context once, or one context as many times.
MaxCalls == Cardinality(Contexts)
\* Longest normalize_paths.
MaxList == 2

\* What a script file is: readable and compiling, unreadable, or readable
\* with compile errors.
FileKinds == {"ok", "unreadable", "invalid"}
\* The lists a call is given.
Lists == UNION {[1..n -> Names] : n \in 0..MaxList}
\* The text read_to_string returns for a path.
SourceOf(path) == <<"text of", path>>
\* The string p.clone() that stands for the source text in the entry of a
\* program found in the cache: the script reference as it was listed.
Placeholder(p) == <<"reference", <<p>>>>
\* The path the loop of context c is at.
PathAt(c) == Resolve(VrlDir, vlist[c][vidx[c]])

\* The process starts with an empty cache and some scripts on disk.
VrlInit ==
    /\ HecNew /\ ApplyIdle /\ ReaderIdle /\ UriIdle /\ TsIdle
    /\ files \in [Paths -> FileKinds]
    /\ cache = [p \in Paths |-> NoProgram]
    /\ lock = 0
    /\ vpc = [c \in Contexts |-> "idle"]
    /\ vlist = [c \in Contexts |-> <<>>]
    /\ vidx = [c \in Contexts |-> 1]
    /\ vout = [c \in Contexts |-> <<>>]
    /\ vsource = [c \in Contexts |-> <<>>]
    /\ vprog = [c \in Contexts |-> NoProgram]
    /\ reads = [p \in Paths |-> 0]
    /\ compiles = [p \in Paths |-> 0]
    /\ inserts = [p \in Paths |-> 0]
    /\ hits = [p \in Paths |-> 0]
    /\ vcalls = 0

\* compile_vrl_chain touches nothing of the other components.
VrlFrame == UNCHANGED <<hecVars, applyVars, readerVars, uriVars, tsVars, files>>

\* The end of a loop iteration: the next path, or "out" is returned.
Advance(c) ==
    /\ vidx' = [vidx EXCEPT ![c] = vidx[c] + 1]
    /\ vpc' = [vpc EXCEPT ![c] =
                 IF vidx[c] + 1 > Len(vlist[c]) THEN "idle" ELSE "loop"]

\* Skip, were a script that fails to end the loop instead of being skipped.
Skip_Return(c) ==
    /\ vidx' = [vidx EXCEPT ![c] = Len(vlist[c]) + 1]
    /\ vpc' = [vpc EXCEPT ![c] = "idle"]

\* The "continue" after a file that cannot be read, and the end of the Err
\* arm of the compile.
Skip(c) == Advance(c)

\* CacheInsert, were the program not stored.
CacheInsert_Dropped(map, path, prog) == map

\* cache.insert(path.clone(), prog_arc)
CacheInsert(map, path, prog) == [map EXCEPT ![path] = prog]

\* ReleaseAfterLookup, were the guard to live until the end of the
\* iteration when the path is not found.
ReleaseAfterLookup_HeldOnMiss(c, hit) == IF hit THEN 0 ELSE c

\* The MutexGuard of the lookup is dropped at the end of its block, found
\* or not.
ReleaseAfterLookup(c, hit) == 0

\* compile_vrl_chain(vrl_dir, normalize_paths) is called by context c; an
\* empty list returns at once.
VCall(c, list) ==
    /\ vpc[c] = "idle"
    /\ vcalls < MaxCalls
    /\ vcalls' = vcalls + 1
    /\ vlist' = [vlist EXCEPT ![c] = list]
    /\ vout' = [vout EXCEPT ![c] = <<>>]
    /\ vidx' = [vidx EXCEPT ![c] = 1]
    /\ vpc' = [vpc EXCEPT ![c] = IF list = <<>> THEN "idle" ELSE "loop"]
    /\ vsource' = [vsource EXCEPT ![c] = <<>>]
    /\ vprog' = [vprog EXCEPT ![c] = NoProgram]
    /\ UNCHANGED <<cache, lock, reads, compiles, inserts, hits>>
    /\ VrlFrame

\* let cache = cache_lock.lock().unwrap();   (1. Check Cache)
VLockLookup(c) ==
    /\ vpc[c] = "loop"
    /\ lock = 0
    /\ lock' = c
    /\ vpc' = [vpc EXCEPT ![c] = "lookup"]
    /\ UNCHANGED <<cache, vlist, vidx, vout, vsource, vprog, reads, compiles,
                   inserts, hits, vcalls>>
    /\ VrlFrame

\* cache.get(&path) under the lock: a program found is cloned and pushed
\* with the script reference p in place of the source text.
VLookup(c) ==
    LET path == PathAt(c)
        hit == cache[path] # NoProgram IN
    /\ vpc[c] = "lookup"
    /\ lock' = ReleaseAfterLookup(c, hit)
    /\ IF hit
       THEN /\ vout' = [vout EXCEPT ![c] =
                          Append(@, [prog |-> cache[path],
                                     src |-> Placeholder(vlist[c][vidx[c]])])]
            /\ hits' = [hits EXCEPT ![path] = @ + 1]
            /\ Advance(c)
       ELSE /\ vpc' = [vpc EXCEPT ![c] = "read"]
            /\ UNCHANGED <<vout, hits, vidx>>
    /\ UNCHANGED <<cache, vlist, vsource, vprog, reads, compiles, inserts,
                   vcalls>>
    /\ VrlFrame

\* std::fs::read_to_string(&path)
VRead(c) ==
    LET path == PathAt(c) IN
    /\ vpc[c] = "read"
    /\ reads' = [reads EXCEPT ![path] = @ + 1]
    /\ IF files[path] = "unreadable"
       THEN /\ Skip(c)
            /\ UNCHANGED vsource
       ELSE /\ vsource' = [vsource EXCEPT ![c] = SourceOf(path)]
            /\ vpc' = [vpc EXCEPT ![c] = "compile"]
            /\ UNCHANGED vidx
    /\ UNCHANGED <<cache, lock, vlist, vout, vprog, compiles, inserts, hits,
                   vcalls>>
    /\ VrlFrame

\* compiler::compile(&source, &functions); every compile builds a program
\* of its own.
VCompile(c) ==
    LET path == PathAt(c) IN
    /\ vpc[c] = "compile"
    /\ compiles' = [compiles EXCEPT ![path] = @ + 1]
    /\ IF files[path] = "invalid"
       THEN /\ Skip(c)
            /\ UNCHANGED vprog
       ELSE /\ vprog' = [vprog EXCEPT ![c] =
                           [path |-> path, build |-> compiles[path] + 1]]
            /\ vpc' = [vpc EXCEPT ![c] = "store"]
            /\ UNCHANGED vidx
    /\ UNCHANGED <<cache, lock, vlist, vout, vsource, reads, inserts, hits,
                   vcalls>>
    /\ VrlFrame

\* let mut cache = cache_lock.lock().unwrap();   (3. Store in Cache)
VLockInsert(c) ==
    /\ vpc[c] = "store"
    /\ lock = 0
    /\ lock' = c
    /\ vpc' = [vpc EXCEPT ![c] = "insert"]
    /\ UNCHANGED <<cache, vlist, vidx, vout, vsource, vprog, reads, compiles,
                   inserts, hits, vcalls>>
    /\ VrlFrame

\* cache.insert(..) under the lock, then out.push((program, source))
VInsert(c) ==
    LET path == PathAt(c) IN
    /\ vpc[c] = "insert"
    /\ cache' = CacheInsert(cache, path, vprog[c])
    /\ inserts' = [inserts EXCEPT ![path] = @ + 1]
    /\ lock' = 0
    /\ vout' = [vout EXCEPT ![c] =
                  Append(@, [prog |-> vprog[c], src |-> vsource[c]])]
    /\ Advance(c)
    /\ UNCHANGED <<vlist, vsource, vprog, reads, compiles, hits, vcalls>>
    /\ VrlFrame

VrlStep(c) ==
    \/ \E list \in Lists : VCall(c, list)
    \/ VLockLookup(c)
    \/ VLookup(c)
    \/ VRead(c)
    \/ VCompile(c)
    \/ VLockInsert(c)
    \/ VInsert(c)

\* Independent ingestion contexts, in any interleaving.
VrlNext == \E c \in Contexts : VrlStep(c)
SpecVrl == VrlInit /\ [][VrlNext]_vars

\* One ingestion context: its calls follow one another.
VrlSeqNext == VrlStep(1)
SpecVrlSeq == VrlInit /\ [][VrlSeqNext]_vars

\* --------------------------------------------------------------------
\* Vocabulary of the claims about compile_vrl_chain
\* --------------------------------------------------------------------
\* The scripts of a list that are readable and compile, in list order.
RECURSIVE Usable(_)
Usable(list) ==
    IF list = <<>> THEN <<>>
    ELSE LET rest == Usable(Tail(list))
             path == Resolve(VrlDir, Head(list)) IN
         IF files[path] = "ok" THEN <<path>> \o rest ELSE rest
\* The scripts of the programs of a chain, in chain order.
ChainPaths(chain) == [i \in 1..Len(chain) |-> chain[i].prog.path]
\* The part of its list context c has gone through.
Done(c) == SubSeq(vlist[c], 1, vidx[c] - 1)
\* How many times a path has been gone through or is being read.
Uses(p) == reads[p] + hits[p]

\* C13 as stated: whatever the script, using its path twice reads and
\* compiles it once only.
C13_ReadOnce ==
    \A p \in Paths : Uses(p) >= 2 => reads[p] = 1 /\ compiles[p] <= 1

\* C13: a script that is readable and compiles is read, compiled and
\* stored once however often one context uses its path, in one call or in
\* successive calls; every later use is a cache hit that returns the
\* program of that one compile.
C13_ReadOnceWhenCompiled ==
    \A p \in Paths :
        files[p] = "ok" =>
            /\ reads[p] <= 1 /\ compiles[p] <= 1 /\ inserts[p] <= 1
            /\ Uses(p) >= 2 => reads[p] = 1 /\ hits[p] = Uses(p) - 1
            /\ \A i \in 1..Len(vout[1]) :
                   vout[1][i].prog.path = p =>
                       vout[1][i].prog = [path |-> p, build |-> 1]

\* Two calls have returned; one script was read once and found in the
\* cache twice since.
C13_Witness ==
    /\ vcalls = 2
    /\ vpc[1] = "idle"
    /\ \E p \in Paths :
          /\ files[p] = "ok" /\ reads[p] = 1 /\ compiles[p] = 1
          /\ hits[p] = 2

\* C14 as stated: under any interleaving of the contexts a script that
\* compiles is read, compiled and inserted at most once, so that its
\* cache entry is never replaced.
C14_OncePerPath ==
    \A p \in Paths :
        files[p] = "ok" =>
            reads[p] <= 1 /\ compiles[p] <= 1 /\ inserts[p] <= 1

\* C15: whoever holds the cache lock is at the lookup or at the insert;
\* a context that reads or compiles a script, or is between the two, does
\* not hold it.
C15_LockOnlyForMap ==
    /\ lock # 0 => vpc[lock] \in {"lookup", "insert"}
    /\ \A c \in Contexts :
          vpc[c] \in {"read", "compile", "store", "loop", "idle"} => lock # c

\* One context is compiling while the other holds the lock for its lookup.
C15_Witness ==
    \E c, d \in Contexts :
        /\ c # d
        /\ vpc[c] = "compile"
        /\ lock = d /\ vpc[d] = "lookup"

\* C16: the chain built so far holds exactly the usable scripts of the
\* part of the list gone through, in list order, and at the return those
\* of the whole list; a script that cannot be read or compiled has no
\* cache entry.
C16_FailedScriptSkipped ==
    /\ \A c \in Contexts :
          /\ ChainPaths(vout[c]) = Usable(Done(c))
          /\ vpc[c] = "idle" => Done(c) = vlist[c]
    /\ \A p \in Paths :
          files[p] # "ok" => cache[p] = NoProgram /\ inserts[p] = 0

\* A call has returned a chain of one program from a list of two scripts
\* whose first failed.
C16_Witness ==
    \E c \in Contexts :
        /\ vpc[c] = "idle"
        /\ Len(vlist[c]) = 2
        /\ files[Resolve(VrlDir, vlist[c][1])] # "ok"
        /\ files[Resolve(VrlDir, vlist[c][2])] = "ok"
        /\ ChainPaths(vout[c]) = <<Resolve(VrlDir, vlist[c][2])>>

\* ====================================================================
\* apply_vrl_chain_to_record (src/utils/vrl.rs)
\*
\* One chain, chosen at the start, is applied to one record after another.
\* A program is known by what it does to the record and to the execution
\* context it is given; each loop iteration is a step.
\* ====================================================================
\* Longest chain.
MaxChain == 3
\* Largest number carried by a record.
MaxVal == 1
\* Number of apply_vrl_chain_to_record calls explored.
MaxApply == 3

\* The scripts: "tag" writes a field of the record, "fail_odd" fails at
\* runtime on a record whose number is odd, "mark" writes the metadata
\* and a local variable, "fail_marked" fails at runtime when it finds
\* metadata or a local variable set.
Programs == {"tag", "fail_odd", "mark", "fail_marked"}
Chains == UNION {[1..n -> Programs] : n \in 0..MaxChain}
\* The records handed to the chain.
Records == [n : 0..MaxVal, tag : {FALSE}]

\* serde_json::from_value::<VrlValue>(val)
FromValue(val) == Some([kind |-> "object", fields |-> val])
\* serde_json::to_value(&vrl_val)
ToValue(vrl_val) == Some(vrl_val.fields)

\* FreshContext, were the metadata and the runtime state kept from the
\* program run before.
FreshContext_Reused(prev) == prev

\* metadata: VrlValue::Object(Default::default()) and
\* RuntimeState::default(), built in every loop iteration.
FreshContext(prev) == [meta |-> FALSE, state |-> FALSE]

\* prog.resolve(&mut ctx): whether it succeeded, target.value and the
\* context after it.
ProgResolve(prog, value, ctx) ==
    CASE prog = "tag" ->
           [ok |-> TRUE,
            value |-> [value EXCEPT !.fields.tag = TRUE],
            ctx |-> ctx]
      [] prog = "fail_odd" ->
           [ok |-> value.fields.n % 2 = 0, value |-> value, ctx |-> ctx]
      [] prog = "mark" ->
           [ok |-> TRUE, value |-> value,
            ctx |-> [meta |-> TRUE, state |-> TRUE]]
      [] prog = "fail_marked" ->
           [ok |-> ~(ctx.meta \/ ctx.state), value |-> value, ctx |-> ctx]

\* Outcome, were the loop to go on after a program that failed.
Outcome_RunsOn(ok, i, n) ==
    IF i < n THEN "next" ELSE IF ok THEN "done" ELSE "none"

\* What follows program i of n: "return None" when it failed, the next
\* iteration, or the end of the loop.
Outcome(ok, i, n) ==
    IF ~ok THEN "none" ELSE IF i < n THEN "next" ELSE "done"

ApplyInit ==
    /\ HecNew /\ VrlIdle /\ ReaderIdle /\ UriIdle /\ TsIdle
    /\ achain \in Chains
    /\ aval = [n |-> 0, tag |-> FALSE]
    /\ avrl = [kind |-> "object", fields |-> [n |-> 0, tag |-> FALSE]]
    /\ actx = [meta |-> FALSE, state |-> FALSE]
    /\ apc = "idle"
    /\ aidx = 1
    /\ ares = None
    /\ aran = <<>>
    /\ afailed = 0
    /\ aprev = 0
    /\ amemo = [r \in Records |-> {}]
    /\ acount = 0

ApplyFrame == UNCHANGED <<hecVars, vrlVars, readerVars, uriVars, tsVars, achain>>

\* The call returns res for the record val.
Return(val, res) ==
    /\ apc' = "idle"
    /\ ares' = res
    /\ amemo' = [amemo EXCEPT ![val] = @ \cup {res}]

\* apply_vrl_chain_to_record(val, chain) up to the for loop.
ApplyCall(val) ==
    /\ apc = "idle"
    /\ acount < MaxApply
    /\ acount' = acount + 1
    /\ aval' = val
    /\ aran' = <<>>
    /\ aprev' = afailed
    /\ afailed' = 0
    /\ aidx' = 1
    /\ IF achain = <<>>
       THEN /\ Return(val, Some(val))
            /\ UNCHANGED avrl
       ELSE /\ avrl' = CHOOSE v \in FromValue(val) : TRUE
            /\ apc' = "run"
            /\ UNCHANGED <<ares, amemo>>
    /\ UNCHANGED actx
    /\ ApplyFrame

\* One iteration of the for loop, and what follows it.
RunProgram ==
    LET r == ProgResolve(achain[aidx], avrl, FreshContext(actx))
        what == Outcome(r.ok, aidx, Len(achain)) IN
    /\ apc = "run"
    /\ aran' = Append(aran, aidx)
    /\ actx' = r.ctx
    /\ afailed' = IF r.ok THEN afailed ELSE aidx
    /\ avrl' = IF r.ok THEN r.value ELSE avrl
    /\ CASE what = "none" -> Return(aval, None) /\ UNCHANGED aidx
         [] what = "done" -> Return(aval, ToValue(r.value)) /\ UNCHANGED aidx
         [] what = "next" -> aidx' = aidx + 1 /\ UNCHANGED <<apc, ares, amemo>>
    /\ UNCHANGED <<aval, aprev, acount>>
    /\ ApplyFrame

ApplyNext ==
    \/ \E val \in Records : ApplyCall(val)
    \/ RunProgram
SpecApply == ApplyInit /\ [][ApplyNext]_vars

\* The positions 1..k, in order.
Positions(k) == [i \in 1..k |-> i]

\* C17: a record for which program i fails gets no result and programs
\* i+1.. are not run for it; every record is run from program 1, through
\* the whole chain when no program fails for it, whatever happened to the
\* record before; an empty chain returns the record as it is.
C17_FailureHaltsOneRecord ==
    /\ aran = Positions(Len(aran))
    /\ afailed # 0 =>
          /\ apc = "idle" /\ ares = None
          /\ aran = Positions(afailed)
    /\ apc = "idle" /\ acount > 0 /\ afailed = 0 =>
          /\ aran = Positions(Len(achain))
          /\ ares # None
    /\ apc = "idle" /\ acount > 0 /\ achain = <<>> => ares = Some(aval)

\* The first program of a chain of three failed for the record before,
\* and the record after it has been through the three programs.
C17_Witness ==
    /\ Len(achain) = 3
    /\ aprev = 1
    /\ apc = "idle" /\ afailed = 0
    /\ aran = <<1, 2, 3>>
    /\ ares # None

\* C18: whatever records were processed before it, failed or not, a
\* record gets one and the same result from the chain.
C18_NoLeakBetweenRecords ==
    \A r \in Records : Cardinality(amemo[r]) <= 1

\* A record has its result from a chain whose first script leaves a mark
\* and whose third fails on a mark, after a record that failed at the
\* second script.
C18_Witness ==
    /\ achain = <<"mark", "fail_odd", "fail_marked">>
    /\ acount = 3 /\ apc = "idle"
    /\ aprev = 2
    /\ aval.n = 0 /\ ares = Some(aval)
    /\ amemo[[n |-> 1, tag |-> FALSE]] = {None}

\* ====================================================================
\* LossyUtf8Reader (src/utils/utils.rs)
\*
\* Bytes are written as two hexadecimal digits.  The underlying source
\* hands out what it holds in chunks of its choosing, of at most the
\* length of in_buf.
\* ====================================================================
\* Longest input.
MaxInput == 3
\* Length of in_buf, scaled down from 8192.
ChunkSize == 3
\* Longest output buffer handed to read.
MaxOut == 2

\* The bytes of the inputs: NUL, "A", the lead byte EF and the
\* continuation bytes BB and BF (EF BB BF is U+FEFF).
InputBytes == {"00", "41", "EF", "BB", "BF"}
Continuation == {"BB", "BF", "BD"}
Inputs == UNION {[1..n -> InputBytes] : n \in 0..MaxInput}

\* Characters are written as their UTF-8 bytes.
NUL == <<"00">>
BOM == <<"EF", "BB", "BF">>
REPLACEMENT == <<"EF", "BF", "BD">>

\* What is left of a sequence after its first k elements.
Drop(seq, k) == SubSeq(seq, k + 1, Len(seq))

\* String::from_utf8_lossy, as a sequence of characters: every maximal
\* invalid part (a lead byte without all of its continuation bytes, or a
\* continuation byte on its own) becomes one U+FFFD.
RECURSIVE from_utf8_lossy(_)
from_utf8_lossy(bytes) ==
    IF bytes = <<>> THEN <<>>
    ELSE IF bytes[1] \in {"00", "41"}
         THEN <<<<bytes[1]>>>> \o from_utf8_lossy(Drop(bytes, 1))
    ELSE IF bytes[1] = "EF" /\ Len(bytes) >= 2 /\ bytes[2] \in Continuation
         THEN IF Len(bytes) >= 3 /\ bytes[3] \in Continuation
              THEN <<SubSeq(bytes, 1, 3)>> \o from_utf8_lossy(Drop(bytes, 3))
              ELSE <<REPLACEMENT>> \o from_utf8_lossy(Drop(bytes, 2))
    ELSE <<REPLACEMENT>> \o from_utf8_lossy(Drop(bytes, 1))

\* Retained, were the byte-order mark let through.
Retained_NulOnly(c) == c # NUL

\* The closure of s.retain(..)
Retained(c) == c # BOM /\ c # NUL

\* s.retain(..) followed by s.as_bytes()
RECURSIVE RetainAsBytes(_)
RetainAsBytes(chars) ==
    IF chars = <<>> THEN <<>>
    ELSE (IF Retained(Head(chars)) THEN Head(chars) ELSE <<>>)
             \o RetainAsBytes(Tail(chars))

\* remaining.min(out.len()), self.out_buf.len().min(out.len())
Min(a, b) == IF a < b THEN a ELSE b

\* LossyUtf8Reader::new(inner) over a source that holds some bytes.
ReaderInit ==
    /\ HecNew /\ VrlIdle /\ ApplyIdle /\ UriIdle /\ TsIdle
    /\ inner \in Inputs
    /\ out_buf = <<>>
    /\ out_pos = 0
    /\ delivered = <<>>
    /\ chunks = <<>>
    /\ lastRead = [out |-> 0, inner |-> "none", ok |-> TRUE, ret |-> 0]

ReaderFrame == UNCHANGED <<hecVars, vrlVars, applyVars, uriVars, tsVars>>

\* ServeLeftover, were the leftover copied from the start of out_buf
\* instead of from out_pos.
ServeLeftover_FromStart(outLen) ==
    LET remaining == Len(out_buf) - out_pos
        to_copy == Min(remaining, outLen) IN
    /\ out_pos < Len(out_buf)
    /\ delivered' = delivered \o SubSeq(out_buf, 1, to_copy)
    /\ out_pos' = out_pos + to_copy
    /\ lastRead' = [out |-> outLen, inner |-> "none", ok |-> TRUE,
                    ret |-> to_copy]
    /\ UNCHANGED <<inner, out_buf, chunks>>
    /\ ReaderFrame

\* read(out) when decoded bytes are left over: they are served first.
ServeLeftover(outLen) ==
    LET remaining == Len(out_buf) - out_pos
        to_copy == Min(remaining, outLen) IN
    /\ out_pos < Len(out_buf)
    /\ delivered' = delivered \o SubSeq(out_buf, out_pos + 1, out_pos + to_copy)
    /\ out_pos' = out_pos + to_copy
    /\ lastRead' = [out |-> outLen, inner |-> "none", ok |-> TRUE,
                    ret |-> to_copy]
    /\ UNCHANGED <<inner, out_buf, chunks>>
    /\ ReaderFrame

\* read(out) when nothing is left over and inner.read fails: the error is
\* passed on.
ReadError(outLen) ==
    /\ out_pos >= Len(out_buf)
    /\ lastRead' = [out |-> outLen, inner |-> "err", ok |-> FALSE, ret |-> 0]
    /\ UNCHANGED <<inner, out_buf, out_pos, delivered, chunks>>
    /\ ReaderFrame

\* What inner.read may return: 0 at the end of the stream only, else some
\* of the bytes the source holds, in_buf at most.
InnerReads == IF inner = <<>> THEN {0} ELSE 1..Min(Len(inner), ChunkSize)

\* read(out) when nothing is left over and inner.read returns n bytes:
\* end of stream for n = 0, else the chunk is decoded, stripped and served.
ReadChunk(outLen) ==
    \E n \in InnerReads :
        LET chunk == SubSeq(inner, 1, n)
            text == RetainAsBytes(from_utf8_lossy(chunk))
            to_copy == Min(Len(text), outLen) IN
        /\ out_pos >= Len(out_buf)
        /\ IF n = 0
           THEN /\ lastRead' = [out |-> outLen, inner |-> "eof", ok |-> TRUE,
                                ret |-> 0]
                /\ UNCHANGED <<inner, out_buf, out_pos, delivered, chunks>>
           ELSE /\ inner' = Drop(inner, n)
                /\ chunks' = Append(chunks, chunk)
                /\ out_buf' = text
                /\ out_pos' = to_copy
                /\ delivered' = delivered \o SubSeq(text, 1, to_copy)
                /\ lastRead' = [out |-> outLen, inner |-> "data", ok |-> TRUE,
                                ret |-> to_copy]
        /\ ReaderFrame

\* The read calls of the consumer, with output buffers of any size from 1.
ReaderNext ==
    \E outLen \in 1..MaxOut :
        \/ ServeLeftover(outLen)
        \/ ReadError(outLen)
        \/ ReadChunk(outLen)
SpecReader == ReaderInit /\ [][ReaderNext]_vars

\* --------------------------------------------------------------------
\* Vocabulary of the claims about LossyUtf8Reader
\* --------------------------------------------------------------------
\* Strict UTF-8 over the bytes of the model: single bytes 00 and 41, and
\* EF followed by two continuation bytes.
RECURSIVE ValidText(_)
ValidText(bytes) ==
    IF bytes = <<>> THEN TRUE
    ELSE IF bytes[1] \in {"00", "41"} THEN ValidText(Drop(bytes, 1))
    ELSE /\ bytes[1] = "EF"
         /\ Len(bytes) >= 3
         /\ bytes[2] \in Continuation /\ bytes[3] \in Continuation
         /\ ValidText(Drop(bytes, 3))
\* The bytes of a byte-order mark occur in a sequence.
HasBomBytes(bytes) ==
    \E i \in 1..Len(bytes) - 2 : SubSeq(bytes, i, i + 2) = BOM
\* A NUL byte occurs in a sequence.
HasNulByte(bytes) == \E i \in 1..Len(bytes) : bytes[i] = "00"
\* All the reader has produced: what it has returned, and the decoded
\* bytes that wait for the next read.
Produced == delivered \o Drop(out_buf, out_pos)
\* The source has reported the end of the stream to the reader.
AtEndOfStream == lastRead.inner = "eof"

\* C19: what the reader has returned holds neither the bytes of a
\* byte-order mark nor a NUL byte, and with the decoded bytes still to be
\* served it is valid UTF-8; at the end of the stream nothing is left to
\* serve, so all that was returned is valid text.
C19_OutputClean ==
    /\ ~HasBomBytes(Produced) /\ ~HasNulByte(Produced)
    /\ ~HasBomBytes(delivered) /\ ~HasNulByte(delivered)
    /\ ValidText(Produced)
    /\ AtEndOfStream => out_pos >= Len(out_buf) /\ ValidText(delivered)

\* A byte-order mark was split over two chunks and the stream has been
\* read to its end.
C19_Witness ==
    /\ Len(chunks) >= 2
    /\ chunks[1] = <<"EF", "BB">>
    /\ chunks[2][1] = "BF"
    /\ AtEndOfStream
    /\ delivered # <<>>

\* C20 as stated: as long as the source still has bytes to deliver, a
\* read into a non-empty buffer does not return 0.
C20_ZeroOnlyAtEnd ==
    lastRead.ok /\ lastRead.out >= 1 /\ lastRead.ret = 0 => inner = <<>>

\* The decoded-and-stripped text of the chunks, in chunk order.
RECURSIVE TextOf(_)
TextOf(cs) ==
    IF cs = <<>> THEN <<>>
    ELSE RetainAsBytes(from_utf8_lossy(Head(cs))) \o TextOf(Tail(cs))

\* C21: the bytes returned so far, followed by the decoded bytes that wait
\* for the next read, are the decoded-and-stripped text of the chunks in
\* chunk order; the bytes returned never run ahead of it, out_pos stays
\* within out_buf, and once the end of the stream is reported everything
\* has been returned.
C21_OutputIsChunkText ==
    /\ out_pos <= Len(out_buf)
    /\ delivered \o Drop(out_buf, out_pos) = TextOf(chunks)
    /\ lastRead.ok /\ lastRead.inner # "eof" =>
          lastRead.ret = Min(lastRead.out,
                             Len(TextOf(chunks)) - Len(delivered)
                                 + lastRead.ret)
    /\ AtEndOfStream => delivered = TextOf(chunks)

\* The three bytes of a replacement character were returned over two read
\* calls, the second one serving the leftover, before a second chunk was
\* read to the end of the stream.
C21_Witness ==
    /\ Len(chunks) = 2
    /\ RetainAsBytes(from_utf8_lossy(chunks[1])) = REPLACEMENT
    /\ chunks[2] = <<"41">>
    /\ AtEndOfStream
    /\ delivered = REPLACEMENT \o <<"41">>

\* C22 as stated: the second component of every entry of a chain is the
\* source text of the script its program was compiled from, whether the
\* program was compiled by the call or found in the cache.
C22_EntryCarriesSource ==
    \A c \in Contexts :
        \A i \in 1..Len(vout[c]) :
            vout[c][i].src = SourceOf(vout[c][i].prog.path)

\* The part of C22 that holds: an entry whose program was compiled by the
\* call carries the text that was read for it.
C22_CompiledEntryCarriesSource ==
    \A c \in Contexts :
        vpc[c] = "insert" => vsource[c] = SourceOf(vprog[c].path)

\* ====================================================================
\* HttpEventCollector::server_uri (src/splunk_utils/http_event_collector.rs)
\*
\* A string is the sequence of its pieces: the characters '?' and '&', and
\* pieces of text that hold neither.  The caller sets the public fields
\* of the client and asks for the URI.
\* ====================================================================
\* Longest sourcetype or index value.
MaxValLen == 2

\* input_type: "raw" is the line mode, anything else the structured mode.
InputTypes == {"raw", "json"}
\* What a configured value is made of: ordinary text, '?' and '&'.
ValueChars == {"x", "?", "&"}
ConfigValues == UNION {[1..n -> ValueChars] : n \in 0..MaxValLen}
\* Uuid::new_v4()
Uuids == {"uuid1", "uuid2"}

\* str.contains(ch)
Contains(str, ch) == \E i \in 1..Len(str) : str[i] = ch
\* str.ends_with(ch)
EndsWith(str, ch) == str # <<>> /\ str[Len(str)] = ch

\* The endpoint path: "/raw?channel=<uuid>" or "/event".
InputUrl(type, uuid) ==
    IF type = "raw" THEN <<"/raw", "?", "channel=", uuid>> ELSE <<"/event">>

\* The '?' pushed when a parameter follows and the path has none yet.
PushQuestionMark(url, st, idx) ==
    IF st # None \/ idx # None
    THEN IF ~Contains(url, "?") THEN Append(url, "?") ELSE url
    ELSE url

\* The sourcetype parameter, after a '&' unless the path ends with '?'.
PushSourcetype(url, st) ==
    IF st # None
    THEN (IF ~EndsWith(url, "?") THEN Append(url, "&") ELSE url)
             \o <<"sourcetype=">> \o (CHOOSE v \in st : TRUE)
    ELSE url

\* PushIndex, were the '&' pushed whatever the path ends with.
PushIndex_AlwaysAmp(url, idx) ==
    IF idx # None
    THEN Append(url, "&") \o <<"index=">> \o (CHOOSE v \in idx : TRUE)
    ELSE url

\* The index parameter, after a '&' unless the path ends with '?' or '&'.
PushIndex(url, idx) ==
    IF idx # None
    THEN (IF ~EndsWith(url, "?") /\ ~EndsWith(url, "&")
          THEN Append(url, "&") ELSE url)
             \o <<"index=">> \o (CHOOSE v \in idx : TRUE)
    ELSE url

\* server_uri(&self), with the UUID it draws.
server_uri(ssl, type, st, idx, uuid) ==
    LET protocol == IF ssl THEN "https" ELSE "http"
        input_url == PushIndex(
                         PushSourcetype(
                             PushQuestionMark(InputUrl(type, uuid), st, idx),
                             st),
                         idx) IN
    <<protocol, "://", "host", ":", "8088", "/services/collector">>
        \o input_url

\* The values a field of type Option<String> takes.
Options == {None} \cup {Some(v) : v \in ConfigValues}

\* A client as its owner has set it up: input_type given to
\* HttpEventCollector::new, the public fields http_event_server_ssl,
\* sourcetype and index as new left them or as assigned since.
UriInit ==
    /\ HecNew /\ VrlIdle /\ ApplyIdle /\ ReaderIdle /\ TsIdle
    /\ http_event_server_ssl \in BOOLEAN
    /\ input_type \in InputTypes
    /\ sourcetype \in Options
    /\ index \in Options
    /\ uri = None

UriFrame == UNCHANGED <<hecVars, vrlVars, applyVars, readerVars, tsVars>>

\* self.server_uri()
ServerUri(uuid) ==
    /\ uri' = Some(server_uri(http_event_server_ssl, input_type, sourcetype,
                              index, uuid))
    /\ UNCHANGED <<http_event_server_ssl, input_type, sourcetype, index>>
    /\ UriFrame

UriNext == \E uuid \in Uuids : ServerUri(uuid)
SpecUri == UriInit /\ [][UriNext]_vars

\* --------------------------------------------------------------------
\* Vocabulary of the claim about server_uri
\* --------------------------------------------------------------------
\* How many times a character occurs in a string.
Count(str, ch) == Cardinality({i \in 1..Len(str) : str[i] = ch})
\* The parameters the URI is to carry, in order.
Params(type, st, idx, uuid) ==
    (IF type = "raw" THEN <<<<"channel=", uuid>>>> ELSE <<>>)
    \o (IF st # None
        THEN <<<<"sourcetype=">> \o (CHOOSE v \in st : TRUE)>> ELSE <<>>)
    \o (IF idx # None
        THEN <<<<"index=">> \o (CHOOSE v \in idx : TRUE)>> ELSE <<>>)
\* Parameters with one '&' between two of them.
RECURSIVE JoinAmp(_)
JoinAmp(ps) ==
    IF ps = <<>> THEN <<>>
    ELSE IF Len(ps) = 1 THEN ps[1]
    ELSE ps[1] \o <<"&">> \o JoinAmp(Tail(ps))
\* The URI as described: the endpoint, then '?' and the parameters if
\* there are any.
ExpectedUri(ssl, type, st, idx, uuid) ==
    LET ps == Params(type, st, idx, uuid) IN
    <<IF ssl THEN "https" ELSE "http", "://", "host", ":", "8088",
      "/services/collector", IF type = "raw" THEN "/raw" ELSE "/event">>
        \o (IF ps = <<>> THEN <<>> ELSE <<"?">> \o JoinAmp(ps))
\* A configured value holds neither '?' nor '&'.
Plain(opt) == \A v \in opt : ~Contains(v, "?") /\ ~Contains(v, "&")
\* The URI the last call returned.
TheUri == CHOOSE u \in uri : TRUE

\* C23 as stated, for values that hold neither '?' nor '&': whatever the
\* mode and whichever of sourcetype and index are configured, the URI has
\* exactly one '?' and ends with neither '?' nor '&'.
C23_ExactlyOneQuestionMark ==
    uri # None /\ Plain(sourcetype) /\ Plain(index) =>
        /\ Count(TheUri, "?") = 1
        /\ ~EndsWith(TheUri, "?") /\ ~EndsWith(TheUri, "&")

\* C23: for values that hold neither '?' nor '&', the URI is the endpoint
\* of the mode followed, when there is a parameter, by '?' and the
\* parameters channel (line mode), sourcetype and index (each when
\* configured) with one '&' between two of them: it has one '?' when
\* there is a parameter and none otherwise, and it ends with neither '?'
\* nor '&'.
C23_UriWellFormed ==
    uri # None /\ Plain(sourcetype) /\ Plain(index) =>
        LET n == Len(Params(input_type, sourcetype, index, "uuid1")) IN
        /\ \E uuid \in Uuids :
              TheUri = ExpectedUri(http_event_server_ssl, input_type,
                                   sourcetype, index, uuid)
        /\ Count(TheUri, "?") = IF n = 0 THEN 0 ELSE 1
        /\ Count(TheUri, "&") = IF n = 0 THEN 0 ELSE n - 1
        /\ ~EndsWith(TheUri, "?") /\ ~EndsWith(TheUri, "&")

\* The URI of the structured mode with an index and no sourcetype.
C23_Witness ==
    /\ uri # None
    /\ input_type = "json"
    /\ sourcetype = None
    /\ index = Some(<<"x">>)
    /\ Count(TheUri, "?") = 1 /\ Count(TheUri, "&") = 0

\* ====================================================================
\* extract_timestamp_from_record (src/utils/utils.rs)
\*
\* A record is known by the value found at each path.  A number is
\* written with its magnitude: "s" for |num| <= 1.0e12, "ms" for a
\* number a thousand times v that lies above 1.0e12.
\* ====================================================================
\* Longest list of paths.
MaxPaths == 2
\* The latest plausible time, now + 10 years, on the scale of the model.
MaxFuture == 2

PathNames == {"a", "b"}
PathLists == UNION {[1..n -> PathNames] : n \in 0..MaxPaths}

\* f64 values: NaN, or v at a magnitude.
Num(mag, v) == [nan |-> FALSE, mag |-> mag, v |-> v]
NaN == [nan |-> TRUE, mag |-> "s", v |-> 0]
\* Times before the epoch, at the latest plausible time, and beyond it.
Seconds == {0 - 1, MaxFuture, MaxFuture + 1}

\* serde_json values and what stands at a path that is not in the record.
Val(kind, form, num) == [kind |-> kind, form |-> form, num |-> num]
Absent == Val("absent", "-", NaN)
Null == Val("null", "-", NaN)
Bool == Val("bool", "-", NaN)
Numbers == {Val("number", "-", Num(mag, v)) : mag \in {"s", "ms"}, v \in Seconds}
\* Strings: the empty one, one that is no timestamp, one in the explicit
\* format, one in RFC 3339, and the ones f64::from_str accepts ("NaN"
\* among them).
Strings ==
    {Val("string", "empty", NaN), Val("string", "garbage", NaN),
     Val("string", "fmt", Num("s", MaxFuture)),
     Val("string", "rfc3339", Num("s", MaxFuture)),
     Val("string", "numeric", NaN)}
    \cup {Val("string", "numeric", Num("s", v)) : v \in Seconds}
Values == {Absent, Null, Bool} \cup Numbers \cup Strings
Events == [PathNames -> Values]
Formats == {None, Some("%Y-%m-%d %H:%M:%S")}

\* get_nested_value(event, path)
get_nested_value(ev, path) ==
    IF ev[path] = Absent THEN None ELSE Some(ev[path])

\* epoch_from_number(num): a number above 1.0e12 is taken for
\* milliseconds; NaN compares false and is returned as it is.
epoch_from_number(num) ==
    IF ~num.nan /\ num.mag = "ms" THEN Num("s", num.v) ELSE num

\* parse_timestamp_string(s, fmt_opt): the explicit format if there is
\* one, then RFC 3339, then a bare number.
parse_timestamp_string(str, fmt) ==
    IF fmt # None /\ str.form = "fmt" THEN Some(str.num)
    ELSE IF str.form = "rfc3339" THEN Some(str.num)
    ELSE IF str.form = "numeric" THEN Some(epoch_from_number(str.num))
    ELSE None

\* extract_timestamp_from_record(event, paths, fmt_opt)
RECURSIVE extract_timestamp_from_record(_, _, _)
extract_timestamp_from_record(ev, ps, fmt) ==
    IF ps = <<>> THEN None
    ELSE LET found == get_nested_value(ev, Head(ps))
             next == extract_timestamp_from_record(ev, Tail(ps), fmt) IN
         IF found = None THEN next
         ELSE LET v == CHOOSE x \in found : TRUE IN
              IF v.kind = "null" THEN next
              ELSE IF v.kind = "number"
                   THEN Some(epoch_from_number(v.num))
              ELSE IF v.kind = "string"
                   THEN IF v.form = "empty" THEN next
                        ELSE IF parse_timestamp_string(v, fmt) # None
                             THEN parse_timestamp_string(v, fmt)
                             ELSE next
              ELSE next

\* is_valid_hec_time(ts)
is_valid_hec_time(t) == ~t.nan /\ t.v >= 0 /\ t.v <= MaxFuture

\* A record, a list of paths and maybe a format.
TsInit ==
    /\ HecNew /\ VrlIdle /\ ApplyIdle /\ ReaderIdle /\ UriIdle
    /\ event \in Events
    /\ ts_paths \in PathLists
    /\ fmt_opt \in Formats
    /\ ts_pc = "input"
    /\ ts = None

TsFrame == UNCHANGED <<hecVars, vrlVars, applyVars, readerVars, uriVars>>

\* The call extract_timestamp_from_record(&event, &paths, fmt_opt).
ExtractTimestamp ==
    /\ ts_pc = "input"
    /\ ts' = extract_timestamp_from_record(event, ts_paths, fmt_opt)
    /\ ts_pc' = "done"
    /\ UNCHANGED <<event, ts_paths, fmt_opt>>
    /\ TsFrame

TsNext == ExtractTimestamp
SpecTs == TsInit /\ [][TsNext]_vars

\* --------------------------------------------------------------------
\* Vocabulary of the claim about extract_timestamp_from_record
\* --------------------------------------------------------------------
\* The timestamp the value at a path stands for, if it stands for one.
Yielded(path) ==
    LET v == event[path] IN
    IF v.kind = "number" THEN Some(epoch_from_number(v.num))
    ELSE IF v.kind = "string" /\ v.form # "empty"
         THEN parse_timestamp_string(v, fmt_opt)
    ELSE None
\* The value at a path is a valid one: it stands for a timestamp that
\* passes the plausibility gate.
YieldsValid(path) == \E t \in Yielded(path) : is_valid_hec_time(t)
\* The first position of the list that satisfies a condition, if any.
First(S) == IF S = {} THEN 0 ELSE CHOOSE i \in S : \A j \in S : i <= j

\* C24 as stated: the result is the timestamp of the first path of the
\* list whose value is valid, and it is absent when no path has one.
C24_FirstValidPath ==
    ts_pc = "done" =>
        LET i == First({k \in 1..Len(ts_paths) : YieldsValid(ts_paths[k])}) IN
        ts = IF i = 0 THEN None ELSE Yielded(ts_paths[i])

\* The part of C24 that holds: the result is the timestamp of the first
\* path of the list whose value is a number or a string that parses,
\* plausible or not, and it is absent when there is no such path.
C24_FirstParsedPath ==
    ts_pc = "done" =>
        LET i == First({k \in 1..Len(ts_paths) :
                           Yielded(ts_paths[k]) # None}) IN
        ts = IF i = 0 THEN None ELSE Yielded(ts_paths[i])

\* C25: a buffer of two or more entries is within the byte budget, so
\* that only a buffer of exactly one record exceeds it, and a request body
\* that carries two or more records is at most max_byte_length bytes long.
C25_OnlyOneRecordOverBudget ==
    /\ Len(batch_events) >= 2 =>
          /\ current_byte_length <= max_byte_length
          /\ TotalLen(batch_events) <= max_byte_length
    /\ current_byte_length > max_byte_length => Len(batch_events) = 1
    /\ \A n \in 1..Len(requests) :
          Cardinality(Ids(requests[n])) >= 2 =>
              Len(requests[n]) <= max_byte_length
    /\ \A k \in 1..Len(flushes) :
          Cardinality(Ids(flushes[k])) >= 2 =>
              Len(flushes[k]) <= max_byte_length

\* A body of two records that fills the budget exactly has been sent, and
\* the buffer now holds one record that exceeds the budget.
C25_Witness ==
    /\ pc = "idle"
    /\ \E k \in 1..Len(flushes) :
          /\ Cardinality(Ids(flushes[k])) = 2
          /\ Len(flushes[k]) = max_byte_length
    /\ Len(batch_events) = 1
    /\ current_byte_length > max_byte_length

====
